---- MODULE Spec2Model ----
(***************************************************************************)
(* Model of the SGE job-watcher plugin (src/jobwatcher/plugins/sge.py) and *)
(* of the declarative converters (src/common/schedulers/converters.py).    *)
(*                                                                         *)
(* Four operations are modelled, each under its own specification:         *)
(*   SpecPlanner, SpecScenario, SpecCompare :                              *)
(*                  get_required_nodes and _get_required_slots, over three *)
(*                  families of node snapshots and job queues              *)
(*   SpecBusy     : get_busy_nodes                                         *)
(*   SpecXml      : from_xml_to_obj                                        *)
(*   SpecTable    : from_table_to_obj_list                                 *)
(***************************************************************************)
EXTENDS Integers, Sequences, FiniteSets, TLC

(***************************************************************************)
(* Bounds of the explored input space: the length of the node snapshot and *)
(* of the job queue per specification, the fleet size, the number and the  *)
(* nesting of xml elements, the length of a table text.                    *)
(***************************************************************************)
MaxNodes == 2
MaxJobs == 3
ScenarioNodes == 3
ScenarioJobs == 3
CmpNodes == 2
CmpJobs == 4
BusyNodes == 3
MaxSize == 2
MaxElems == 2
MaxDepth == 2
MaxTableLen == 7

VARIABLES
    pc,               \* position of the running operation
    instance_slots,   \* instance_properties.get("slots")
    max_size,         \* max_size argument of get_required_nodes
    nodes,            \* get_compute_nodes_info().values(), in dict order
    pending_jobs,     \* get_pending_jobs_info(...), in queue order
    avail_slots,      \* local list avail_slots of _get_required_slots
    job_idx,          \* number of pending jobs the outer loop has consumed
    slots,            \* local accumulator slots of _get_required_slots
    required_slots,   \* value returned by _get_required_slots
    required_nodes,   \* value returned by get_required_nodes
    busy_nodes,       \* value returned by get_busy_nodes
    xml_root,         \* root = ElementTree.fromstring(xml)
    xml_found,        \* per tag: results = root.findall(tag)
    xml_inputs,       \* per tag: the inputs extracted from the results
    xml_values,       \* per tag: the list values
    xml_obj,          \* obj returned by from_xml_to_obj
    table,            \* table argument of from_table_to_obj_list
    table_results     \* list returned by from_table_to_obj_list

plannerVars == <<instance_slots, max_size, nodes, pending_jobs, avail_slots,
                 job_idx, slots, required_slots, required_nodes>>

converterVars == <<xml_root, xml_found, xml_inputs, xml_values, xml_obj, table, table_results>>

vars == <<pc, plannerVars, busy_nodes, converterVars>>

None == "None"

ConvertersIdle ==
    /\ xml_root = None
    /\ xml_found = None
    /\ xml_inputs = None
    /\ xml_values = None
    /\ xml_obj = None
    /\ table = None
    /\ table_results = None

(***************************************************************************)
(* Generic helpers.                                                        *)
(***************************************************************************)
RECURSIVE SumSeq(_)
SumSeq(s) == IF s = <<>> THEN 0 ELSE Head(s) + SumSeq(Tail(s))

SeqsUpTo(S, n) == UNION {[1..k -> S] : k \in 0..n}

(***************************************************************************)
(* list.sort() on a list of integers: ascending order.                     *)
(***************************************************************************)
RECURSIVE InsertSorted(_, _)
InsertSorted(x, s) ==
    IF s = <<>> THEN <<x>>
    ELSE IF x <= Head(s) THEN <<x>> \o s
    ELSE <<Head(s)>> \o InsertSorted(x, Tail(s))

RECURSIVE ListSort(_)
ListSort(s) == IF s = <<>> THEN <<>> ELSE InsertSorted(Head(s), ListSort(Tail(s)))

(***************************************************************************)
(* sge.py line 27: free slots of one node.                                 *)
(***************************************************************************)
NodeAvail(s, node) == s - node.slots_used - node.slots_reserved

(***************************************************************************)
(* Variant of BuildAvailSlots that leaves the list in node order.          *)
(***************************************************************************)
BuildAvailSlots_Unsorted(s, ns) == [i \in 1..Len(ns) |-> NodeAvail(s, ns[i])]

(***************************************************************************)
(* sge.py lines 24-28: the available-slots list, built in node order and   *)
(* then sorted once.                                                       *)
(***************************************************************************)
BuildAvailSlots(s, ns) == ListSort([i \in 1..Len(ns) |-> NodeAvail(s, ns[i])])

(***************************************************************************)
(* Variant of FirstFit that requires strictly more room than the demand.   *)
(***************************************************************************)
RECURSIVE FirstFit_Strict(_, _, _)
FirstFit_Strict(avail, demand, i) ==
    IF i > Len(avail) THEN 0
    ELSE IF demand < avail[i] THEN i
    ELSE FirstFit_Strict(avail, demand, i + 1)

(***************************************************************************)
(* sge.py lines 36-40: index of the first entry, scanning from index i,    *)
(* that can hold the demand; 0 when the scan ends without a match.         *)
(***************************************************************************)
RECURSIVE FirstFit(_, _, _)
FirstFit(avail, demand, i) ==
    IF i > Len(avail) THEN 0
    ELSE IF demand <= avail[i] THEN i
    ELSE FirstFit(avail, demand, i + 1)

(***************************************************************************)
(* Variant of TakeSlot that takes a single slot whatever the demand.       *)
(***************************************************************************)
TakeSlot_ByOne(avail, i, demand) == [avail EXCEPT ![i] = @ - 1]

(***************************************************************************)
(* sge.py line 38: the in-place decrement of the matched entry.            *)
(***************************************************************************)
TakeSlot(avail, i, demand) == [avail EXCEPT ![i] = @ - demand]

(***************************************************************************)
(* Variant of AddUnmatched that counts the job instead of its slots.       *)
(***************************************************************************)
AddUnmatched_One(total, demand) == total + 1

(***************************************************************************)
(* sge.py lines 41-42: the running total after a job that found no slot.   *)
(***************************************************************************)
AddUnmatched(total, demand) == total + demand

(***************************************************************************)
(* sge.py lines 33-45 as a function of the sorted list and the job queue:  *)
(* the total returned after the loop has consumed every job.               *)
(***************************************************************************)
RECURSIVE RequiredSlots(_, _, _)
RequiredSlots(avail, jobs, total) ==
    IF jobs = <<>> THEN total
    ELSE LET i == FirstFit(avail, Head(jobs).slots, 1)
         IN  IF i # 0
             THEN RequiredSlots(TakeSlot(avail, i, Head(jobs).slots), Tail(jobs), total)
             ELSE RequiredSlots(avail, Tail(jobs), AddUnmatched(total, Head(jobs).slots))

(***************************************************************************)
(* Python floor division a // b for b > 0.                                 *)
(***************************************************************************)
FloorDiv(a, b) == IF a >= 0 THEN a \div b ELSE -(((-a) + b - 1) \div b)

(***************************************************************************)
(* Variant of NodesForSlots that rounds down.                              *)
(***************************************************************************)
NodesForSlots_Floor(required, vcpus) == FloorDiv(required, vcpus)

(***************************************************************************)
(* sge.py line 52: -(-required_slots // vcpus).                            *)
(***************************************************************************)
NodesForSlots(required, vcpus) == -FloorDiv(-required, vcpus)

(***************************************************************************)
(* sge.py line 31.                                                         *)
(***************************************************************************)
MaxClusterSlots(size, s) == size * s

(***************************************************************************)
(* Inputs of the planner.                                                  *)
(***************************************************************************)
NodeSet(s, used, reserved, states) ==
    {n \in [state : states, slots_used : used, slots_reserved : reserved] :
        n.slots_used + n.slots_reserved <= s}

JobSet(demands, maxDemand) == [slots : {d \in demands : d <= maxDemand}]

Min(a, b) == IF a <= b THEN a ELSE b

PlannerInit(slotSet, used, reserved, demands, maxNodes, maxJobs) ==
    /\ pc = "start"
    /\ instance_slots \in slotSet
    /\ max_size = MaxSize
    /\ nodes \in SeqsUpTo(NodeSet(instance_slots, used, reserved, {{}}), maxNodes)
    /\ pending_jobs \in SeqsUpTo(JobSet(demands, MaxClusterSlots(max_size, instance_slots)), maxJobs)
    /\ avail_slots = <<>>
    /\ job_idx = 0
    /\ slots = 0
    /\ required_slots = None
    /\ required_nodes = None
    /\ busy_nodes = None
    /\ ConvertersIdle

\* every slot count up to 4, any load with at most one reserved slot, demands up to 3
InitPlanner == PlannerInit(1..4, 0..4, 0..1, 1..3, MaxNodes, MaxJobs)

\* every slot count up to 4, no reservations, odd demands up to 5, one more node
InitScenario == PlannerInit(1..4, 0..4, {0}, {1, 3, 5}, ScenarioNodes, ScenarioJobs)

\* six slots per instance, a longer queue
InitCompare == PlannerInit({6}, {0, 2, 3, 4}, {0}, 1..4, CmpNodes, CmpJobs)

(***************************************************************************)
(* _get_required_slots, lines 24-33: snapshot the nodes, build and sort    *)
(* the list, fetch the pending jobs, reset the total.                      *)
(***************************************************************************)
GetAvailSlots ==
    /\ pc = "start"
    /\ avail_slots' = BuildAvailSlots(instance_slots, nodes)
    /\ slots' = 0
    /\ job_idx' = 0
    /\ pc' = "match"
    /\ UNCHANGED <<instance_slots, max_size, nodes, pending_jobs, required_slots, required_nodes, busy_nodes, converterVars>>

(***************************************************************************)
(* _get_required_slots, lines 34-42: one iteration of the loop over the    *)
(* pending jobs.                                                           *)
(***************************************************************************)
MatchJob ==
    /\ pc = "match"
    /\ job_idx < Len(pending_jobs)
    /\ LET job == pending_jobs[job_idx + 1]
           i == FirstFit(avail_slots, job.slots, 1)
       IN  IF i # 0
           THEN /\ avail_slots' = TakeSlot(avail_slots, i, job.slots)
                /\ slots' = slots
           ELSE /\ avail_slots' = avail_slots
                /\ slots' = AddUnmatched(slots, job.slots)
    /\ job_idx' = job_idx + 1
    /\ UNCHANGED <<pc, instance_slots, max_size, nodes, pending_jobs, required_slots, required_nodes, busy_nodes, converterVars>>

(***************************************************************************)
(* _get_required_slots, line 45: return slots.                             *)
(***************************************************************************)
ReturnSlots ==
    /\ pc = "match"
    /\ job_idx = Len(pending_jobs)
    /\ required_slots' = slots
    /\ pc' = "nodes"
    /\ UNCHANGED <<instance_slots, max_size, nodes, pending_jobs, avail_slots, job_idx, slots, required_nodes, busy_nodes, converterVars>>

(***************************************************************************)
(* get_required_nodes, lines 50-52.                                        *)
(***************************************************************************)
get_required_nodes ==
    /\ pc = "nodes"
    /\ required_nodes' = NodesForSlots(required_slots, instance_slots)
    /\ pc' = "done"
    /\ UNCHANGED <<instance_slots, max_size, nodes, pending_jobs, avail_slots, job_idx, slots, required_slots, busy_nodes, converterVars>>

NextPlanner == GetAvailSlots \/ MatchJob \/ ReturnSlots \/ get_required_nodes

SpecPlanner == InitPlanner /\ [][NextPlanner]_vars

SpecScenario == InitScenario /\ [][NextPlanner]_vars

SpecCompare == InitCompare /\ [][NextPlanner]_vars


(***************************************************************************)
(* Measures used by the properties of the planner.                         *)
(***************************************************************************)
NodeAvails == [i \in 1..Len(nodes) |-> NodeAvail(instance_slots, nodes[i])]

Demands == [k \in 1..Len(pending_jobs) |-> pending_jobs[k].slots]

IsAscending(s) == \A i \in 1..(Len(s) - 1) : s[i] <= s[i + 1]

Occurrences(s, v) == Cardinality({i \in 1..Len(s) : s[i] = v})

SameElements(s, t) ==
    /\ Len(s) = Len(t)
    /\ \A i \in 1..Len(s) : Occurrences(s, s[i]) = Occurrences(t, s[i])

ProcessedDemand == SumSeq(SubSeq(Demands, 1, job_idx))

Decrements == SumSeq(NodeAvails) - SumSeq(avail_slots)

(***************************************************************************)
(* C1: the list is sorted ascending when the first job is considered; each *)
(* step consumes the next job in the supplied order, decrements only the   *)
(* first entry (by index) that is >= the job's demand, or, when no entry   *)
(* qualifies, leaves the list alone and adds the demand to the total; the  *)
(* value returned is the total after the last job.                         *)
(***************************************************************************)
C1_SortedAtFirstJob ==
    (pc = "match" /\ job_idx = 0) =>
        /\ IsAscending(avail_slots)
        /\ SameElements(avail_slots, NodeAvails)
        /\ slots = 0

C1_JobStep ==
    (pc = "match" /\ job_idx' # job_idx) =>
        /\ job_idx' = job_idx + 1
        /\ job_idx < Len(pending_jobs)
        /\ LET d == pending_jobs[job_idx + 1].slots
               fits == {i \in 1..Len(avail_slots) : avail_slots[i] >= d}
           IN  IF fits = {}
               THEN avail_slots' = avail_slots /\ slots' = slots + d
               ELSE LET m == CHOOSE i \in fits : \A j \in fits : i <= j
                    IN  /\ Len(avail_slots') = Len(avail_slots)
                        /\ avail_slots'[m] = avail_slots[m] - d
                        /\ \A j \in 1..Len(avail_slots) : j # m => avail_slots'[j] = avail_slots[j]
                        /\ slots' = slots

C1_Returned ==
    pc \in {"nodes", "done"} => (job_idx = Len(pending_jobs) /\ required_slots = slots)

C1_GreedyFirstFit ==
    /\ [](C1_SortedAtFirstJob /\ C1_Returned)
    /\ [][C1_JobStep]_vars

C1_Witness ==
    /\ pc = "nodes"
    /\ Len(pending_jobs) >= 2
    /\ required_slots > 0
    /\ ~IsAscending(avail_slots)

(***************************************************************************)
(* C2: after every processed prefix of jobs, the required total plus the   *)
(* slots taken from the nodes equals the demand of the processed jobs.     *)
(***************************************************************************)
C2_Conservation ==
    /\ pc = "match" => slots + Decrements = ProcessedDemand
    /\ pc \in {"nodes", "done"} =>
            (job_idx = Len(pending_jobs) /\ required_slots + Decrements = SumSeq(Demands))

C2_Witness ==
    /\ pc = "done"
    /\ required_slots > 0
    /\ Decrements > 0

(***************************************************************************)
(* Placements of whole jobs onto nodes: p[k] is the node that receives job *)
(* k, or 0 when job k is left unplaced.                                    *)
(***************************************************************************)
Placements == [1..Len(pending_jobs) -> 0..Len(nodes)]

PlacedOn(p, n) == SumSeq([k \in 1..Len(pending_jobs) |-> IF p[k] = n THEN Demands[k] ELSE 0])

Respects(p) == \A n \in 1..Len(nodes) : PlacedOn(p, n) <= NodeAvails[n]

(***************************************************************************)
(* C3: the returned total is at least the least unplaced demand over all   *)
(* placements that respect every node's available slots.                   *)
(***************************************************************************)
C3_NeverBelowUnmet ==
    pc = "done" => \E p \in Placements : Respects(p) /\ PlacedOn(p, 0) <= required_slots

C3_Witness ==
    /\ pc = "done"
    /\ required_slots > 0
    /\ \E p \in Placements : Respects(p) /\ PlacedOn(p, 0) < required_slots

(***************************************************************************)
(* C4: the node count is the integer ceiling of required slots over the    *)
(* per-instance slot count; it is 0 without pending jobs; available slots  *)
(* {0, 2, 4}, demands 1, 3, 5 and 4 slots per instance give 5 slots and 2  *)
(* nodes.                                                                  *)
(***************************************************************************)
C4_Scenario ==
    /\ instance_slots = 4
    /\ Len(nodes) = 3
    /\ {NodeAvails[i] : i \in 1..3} = {0, 2, 4}
    /\ Demands = <<1, 3, 5>>

C4_CeilingOfSlots ==
    pc = "done" =>
        /\ required_slots >= 0
        /\ required_nodes * instance_slots >= required_slots
        /\ (required_nodes - 1) * instance_slots < required_slots
        /\ (pending_jobs = <<>> => required_nodes = 0)
        /\ (C4_Scenario => (required_slots = 5 /\ required_nodes = 2))

C4_Witness ==
    /\ pc = "done"
    /\ C4_Scenario
    /\ required_nodes = 2


(***************************************************************************)
(* Reference pass of C10: the same greedy scan, but the list is sorted     *)
(* ascending again after every decrement (best fit).                       *)
(***************************************************************************)
RECURSIVE ResortedRequired(_, _)
ResortedRequired(avail, demands) ==
    IF demands = <<>> THEN 0
    ELSE LET d == Head(demands)
             fits == {i \in 1..Len(avail) : avail[i] >= d}
         IN  IF fits = {}
             THEN d + ResortedRequired(avail, Tail(demands))
             ELSE LET m == CHOOSE i \in fits : \A j \in fits : i <= j
                  IN  ResortedRequired(ListSort([avail EXCEPT ![m] = @ - d]), Tail(demands))

ResortedResult == ResortedRequired(ListSort(NodeAvails), Demands)

AvailableIs(values) == Len(nodes) = Cardinality(values) /\ {NodeAvails[i] : i \in 1..Len(nodes)} = values

(***************************************************************************)
(* C10: the single pass differs from the re-sorting pass in both           *)
(* directions: on available slots {3, 6} with demands 4, 1, 2, 2 it        *)
(* returns less, on available slots {2, 4} with demands 3, 1, 2 it returns *)
(* more.                                                                   *)
(***************************************************************************)
C10_UnderAndOver ==
    pc = "done" =>
        /\ (AvailableIs({3, 6}) /\ Demands = <<4, 1, 2, 2>>) => required_slots < ResortedResult
        /\ (AvailableIs({2, 4}) /\ Demands = <<3, 1, 2>>) => required_slots > ResortedResult

C10_Witness ==
    /\ pc = "done"
    /\ required_slots < ResortedResult
    /\ RequiredSlots(<<2, 4>>, <<[slots |-> 3], [slots |-> 1], [slots |-> 2]>>, 0)
            > ResortedRequired(<<2, 4>>, <<3, 1, 2>>)


(***************************************************************************)
(* State tokens of sge_commands: the busy states and the orphaned state.   *)
(***************************************************************************)
SGE_BUSY_STATES == {"u", "C", "s", "D", "E", "P"}

SGE_ORPHANED_STATE == "o"

(***************************************************************************)
(* Tokens the explored node states are drawn from: a busy one, the         *)
(* orphaned one and one that is neither.                                   *)
(***************************************************************************)
StateTokens == {"u", SGE_ORPHANED_STATE, "d"}

(***************************************************************************)
(* sge.py lines 62-66: the condition of the outer if.                      *)
(***************************************************************************)
IsBusy(node) ==
    \/ \E busy_state \in SGE_BUSY_STATES : busy_state \in node.state
    \/ node.slots_used > 0
    \/ node.slots_reserved > 0

(***************************************************************************)
(* Variant of BusyIncrement without the orphaned-state exclusion.          *)
(***************************************************************************)
BusyIncrement_CountOrphaned(node) == IF IsBusy(node) THEN 1 ELSE 0

(***************************************************************************)
(* sge.py lines 62-74: what one node adds to busy_nodes.                   *)
(***************************************************************************)
BusyIncrement(node) ==
    IF IsBusy(node)
    THEN IF SGE_ORPHANED_STATE \in node.state THEN 0 ELSE 1
    ELSE 0

(***************************************************************************)
(* sge.py lines 60-76: the loop over nodes.values().                       *)
(***************************************************************************)
RECURSIVE CountBusy(_, _)
CountBusy(ns, count) ==
    IF ns = <<>> THEN count
    ELSE CountBusy(Tail(ns), count + BusyIncrement(Head(ns)))

InitBusy ==
    /\ pc = "busy_start"
    /\ instance_slots = 2
    /\ max_size = MaxSize
    /\ nodes \in SeqsUpTo(NodeSet(instance_slots, {0, 2}, {0, 1}, SUBSET StateTokens), BusyNodes)
    /\ pending_jobs = <<>>
    /\ avail_slots = <<>>
    /\ job_idx = 0
    /\ slots = 0
    /\ required_slots = None
    /\ required_nodes = None
    /\ busy_nodes = None
    /\ ConvertersIdle

(***************************************************************************)
(* get_busy_nodes, lines 55-76.                                            *)
(***************************************************************************)
get_busy_nodes ==
    /\ pc = "busy_start"
    /\ busy_nodes' = CountBusy(nodes, 0)
    /\ pc' = "busy_done"
    /\ UNCHANGED <<plannerVars, converterVars>>

NextBusy == get_busy_nodes

SpecBusy == InitBusy /\ [][NextBusy]_vars

(***************************************************************************)
(* C5: the busy count is the number of nodes that have a busy-state token  *)
(* or used slots or reserved slots, and are not orphaned.                  *)
(***************************************************************************)
C5_Counted(n) ==
    /\ (n.state \cap SGE_BUSY_STATES # {} \/ n.slots_used > 0 \/ n.slots_reserved > 0)
    /\ SGE_ORPHANED_STATE \notin n.state

C5_BusyCount ==
    pc = "busy_done" =>
        busy_nodes = Cardinality({i \in 1..Len(nodes) : C5_Counted(nodes[i])})

C5_Witness ==
    /\ pc = "busy_done"
    /\ busy_nodes = 1
    /\ Len(nodes) = 3
    /\ nodes[1].state = {} /\ nodes[1].slots_used = 2
    /\ nodes[2].state = {SGE_ORPHANED_STATE} /\ nodes[2].slots_used > 0
    /\ nodes[3].state = {} /\ nodes[3].slots_used = 0 /\ nodes[3].slots_reserved = 0


(***************************************************************************)
(* Python values handled by the converters.                                *)
(***************************************************************************)
PyNone == [kind |-> "None"]

PyStr(chars) == [kind |-> "str", chars |-> chars]

PyDict(key, value) == [kind |-> "dict", key |-> key, value |-> value]

PyList(items) == [kind |-> "list", items |-> items]

PyCall(func, arg) == [kind |-> "call", func |-> func, arg |-> arg]

Default(field) == [kind |-> "default", field |-> field]

Truthy(v) == v.kind = "str" /\ v.chars # <<>>

(***************************************************************************)
(* str.strip(): surrounding whitespace removed.                            *)
(***************************************************************************)
RECURSIVE StripLeft(_)
StripLeft(c) == IF c # <<>> /\ Head(c) = " " THEN StripLeft(Tail(c)) ELSE c

RECURSIVE StripRight(_)
StripRight(c) == IF c # <<>> /\ c[Len(c)] = " " THEN StripRight(SubSeq(c, 1, Len(c) - 1)) ELSE c

Strip(c) == StripRight(StripLeft(c))

(***************************************************************************)
(* A record type for the xml mapper, in the shape the docstring of         *)
(* from_xml_to_obj prescribes: a text tag with a transformation, a text    *)
(* tag without (xml_elem_type left to its default), and an xml tag.        *)
(***************************************************************************)
XmlMappings ==
    << [tag |-> "slots", field |-> "slots", transformation |-> "int", xml_elem_type |-> "text"],
       [tag |-> "hard_request", field |-> "hard_request", transformation |-> None, xml_elem_type |-> None],
       [tag |-> "job", field |-> "jobs", transformation |-> None, xml_elem_type |-> "xml"] >>

XmlTags == {XmlMappings[i].tag : i \in 1..Len(XmlMappings)}

XmlFields == {XmlMappings[i].field : i \in 1..Len(XmlMappings)}

(***************************************************************************)
(* Parsed documents: elements with a tag, a text, an optional name         *)
(* attribute and children.                                                 *)
(***************************************************************************)
Element(tag, text, name, children) ==
    [kind |-> "Element", tag |-> tag, text |-> text, name |-> name, children |-> children]

XmlTexts == {PyNone, PyStr(<<" ">>), PyStr(<<" ", "1", " ">>), PyStr(<<"2">>)}

XmlNames == {None, "vcs", "h_rt"}

XmlLabels == XmlTags \X XmlTexts \X XmlNames

\* parents[i] is the element that contains element i, 0 for the root
DepthOf(parents, i) ==
    LET RECURSIVE Up(_)
        Up(k) == IF k = 0 THEN 0 ELSE 1 + Up(parents[k])
    IN  Up(i)

ValidParents(parents) ==
    /\ \A i \in DOMAIN parents : parents[i] < i
    /\ \A i \in DOMAIN parents : DepthOf(parents, i) <= MaxDepth

RECURSIVE ChildrenOf(_, _, _, _)
ChildrenOf(p, from, parents, labels) ==
    IF from > Len(parents) THEN <<>>
    ELSE IF parents[from] = p
         THEN <<Element(labels[from][1], labels[from][2], labels[from][3],
                        ChildrenOf(from, from + 1, parents, labels))>>
              \o ChildrenOf(p, from + 1, parents, labels)
         ELSE ChildrenOf(p, from + 1, parents, labels)

XmlRoot(parents, labels) == Element("job_list", PyNone, None, ChildrenOf(0, 1, parents, labels))

(***************************************************************************)
(* The elements below the root in document order (pre-order).              *)
(***************************************************************************)
RECURSIVE Descendants(_)
Descendants(forest) ==
    IF forest = <<>> THEN <<>>
    ELSE <<Head(forest)>> \o Descendants(Head(forest).children) \o Descendants(Tail(forest))

(***************************************************************************)
(* Variant of FindAll that searches every depth, as './/tag' would.        *)
(***************************************************************************)
FindAll_AnyDepth(root, tag) == SelectSeq(Descendants(root.children), LAMBDA e : e.tag = tag)

(***************************************************************************)
(* converters.py line 38: root.findall(tag) for a plain tag name selects   *)
(* the children of root that carry the tag, in document order.             *)
(***************************************************************************)
FindAll(root, tag) == SelectSeq(root.children, LAMBDA e : e.tag = tag)

(***************************************************************************)
(* converters.py line 40: mapping.get("xml_elem_type", "text").            *)
(***************************************************************************)
ElemType(mapping) == IF mapping.xml_elem_type = None THEN "text" ELSE mapping.xml_elem_type

(***************************************************************************)
(* Variant of ExtractInput that applies the name rule to xml inputs too.   *)
(***************************************************************************)
ExtractInput_NameForAnyKind(result, xml_elem_type) ==
    LET text == IF Truthy(result.text) THEN PyStr(Strip(result.text.chars)) ELSE result.text
        input == IF xml_elem_type = "xml" THEN result ELSE text
    IN  IF result.name # None THEN PyDict(result.name, text) ELSE input

(***************************************************************************)
(* converters.py lines 43-83: the input extracted from one result.         *)
(***************************************************************************)
ExtractInput(result, xml_elem_type) ==
    IF xml_elem_type = "xml"
    THEN result
    ELSE LET text == IF Truthy(result.text) THEN PyStr(Strip(result.text.chars)) ELSE result.text
         IN  IF result.name # None THEN PyDict(result.name, text) ELSE text

(***************************************************************************)
(* converters.py line 84: the value appended for one input.                *)
(***************************************************************************)
Transform(transformation_func, input) ==
    IF transformation_func = None THEN input ELSE PyCall(transformation_func, input)

(***************************************************************************)
(* Variant of Aggregate that never unwraps a single value.                 *)
(***************************************************************************)
Aggregate_AlwaysList(values, current) == IF values = <<>> THEN current ELSE PyList(values)

(***************************************************************************)
(* converters.py lines 85-86: the field after the values of one tag.       *)
(***************************************************************************)
Aggregate(values, current) ==
    IF values = <<>> THEN current
    ELSE IF Len(values) = 1 THEN values[1]
    ELSE PyList(values)

(***************************************************************************)
(* converters.py lines 38-84 for one entry of MAPPINGS.                    *)
(***************************************************************************)
InputsOf(root, mapping) ==
    LET results == FindAll(root, mapping.tag)
    IN  [i \in 1..Len(results) |-> ExtractInput(results[i], ElemType(mapping))]

ValuesOf(root, mapping) ==
    LET inputs == InputsOf(root, mapping)
    IN  [i \in 1..Len(inputs) |-> Transform(mapping.transformation, inputs[i])]

(***************************************************************************)
(* converters.py lines 35-88: obj_type() followed by the loop over         *)
(* MAPPINGS.items().                                                       *)
(***************************************************************************)
RECURSIVE MapTags(_, _, _)
MapTags(obj, root, mappings) ==
    IF mappings = <<>> THEN obj
    ELSE LET mapping == Head(mappings)
         IN  MapTags([obj EXCEPT ![mapping.field] = Aggregate(ValuesOf(root, mapping), @)],
                     root, Tail(mappings))

NewXmlObj == [f \in XmlFields |-> Default(f)]

PlannerIdle ==
    /\ instance_slots = None
    /\ max_size = None
    /\ nodes = <<>>
    /\ pending_jobs = <<>>
    /\ avail_slots = <<>>
    /\ job_idx = 0
    /\ slots = 0
    /\ required_slots = None
    /\ required_nodes = None
    /\ busy_nodes = None

InitXml ==
    /\ pc = "xml_start"
    /\ PlannerIdle
    /\ \E n \in 0..MaxElems :
          \E parents \in [1..n -> 0..(MaxElems - 1)] :
              \E labels \in [1..n -> XmlLabels] :
                  /\ ValidParents(parents)
                  /\ xml_root = XmlRoot(parents, labels)
    /\ xml_found = None
    /\ xml_inputs = None
    /\ xml_values = None
    /\ xml_obj = None
    /\ table = None
    /\ table_results = None

(***************************************************************************)
(* from_xml_to_obj, lines 35-88.                                           *)
(***************************************************************************)
from_xml_to_obj ==
    /\ pc = "xml_start"
    /\ xml_found' = [t \in XmlTags |-> FindAll(xml_root, t)]
    /\ xml_inputs' = [t \in XmlTags |->
            InputsOf(xml_root, XmlMappings[CHOOSE i \in 1..Len(XmlMappings) : XmlMappings[i].tag = t])]
    /\ xml_values' = [t \in XmlTags |->
            ValuesOf(xml_root, XmlMappings[CHOOSE i \in 1..Len(XmlMappings) : XmlMappings[i].tag = t])]
    /\ xml_obj' = MapTags(NewXmlObj, xml_root, XmlMappings)
    /\ pc' = "xml_done"
    /\ UNCHANGED <<plannerVars, busy_nodes, xml_root, table, table_results>>

NextXml == from_xml_to_obj

SpecXml == InitXml /\ [][NextXml]_vars


(***************************************************************************)
(* Measures used by the properties of the xml mapper.                      *)
(***************************************************************************)
WithTag(elements, tag) == {i \in 1..Len(elements) : elements[i].tag = tag}

\* found lists exactly the elements of `elements` that carry the tag, in order.
IsSelection(found, elements, tag) ==
    /\ Len(found) = Cardinality(WithTag(elements, tag))
    /\ \A j \in 1..Len(found) :
          \E i \in WithTag(elements, tag) :
              /\ found[j] = elements[i]
              /\ Cardinality({h \in WithTag(elements, tag) : h < i}) = j - 1

\* v is the element text with the surrounding whitespace removed.
IsTrimmed(v, text) ==
    IF text.kind # "str" THEN v = text
    ELSE /\ v.kind = "str"
         /\ \E a \in 0..Len(text.chars) : \E b \in 0..(Len(text.chars) - a) :
               /\ v.chars = SubSeq(text.chars, a + 1, Len(text.chars) - b)
               /\ \A i \in 1..a : text.chars[i] = " "
               /\ \A i \in (Len(text.chars) - b + 1)..Len(text.chars) : text.chars[i] = " "
               /\ v.chars # <<>> => (v.chars[1] # " " /\ v.chars[Len(v.chars)] # " ")

IsNamedEntry(input, element) ==
    /\ input.kind = "dict"
    /\ input.key = element.name
    /\ IsTrimmed(input.value, element.text)

XmlDone == pc = "xml_done"

(***************************************************************************)
(* C6: per mapped key, one value sets the field to that value, two or more *)
(* set it to the sequence of all values in order, none leaves the field at *)
(* its construction default.                                               *)
(***************************************************************************)
C6_ScalarOrSequence ==
    XmlDone =>
        \A i \in 1..Len(XmlMappings) :
            LET m == XmlMappings[i]
                values == xml_values[m.tag]
            IN  /\ Len(values) = 1 => xml_obj[m.field] = values[1]
                /\ Len(values) >= 2 => xml_obj[m.field] = PyList(values)
                /\ Len(values) = 0 => xml_obj[m.field] = Default(m.field)

C6_Witness ==
    /\ XmlDone
    /\ Len(xml_values["hard_request"]) = 2
    /\ xml_obj["hard_request"] = PyList(xml_values["hard_request"])
    /\ xml_obj["slots"] = Default("slots")

C6_WitnessScalar ==
    /\ XmlDone
    /\ Len(xml_values["slots"]) = 1
    /\ xml_obj["slots"] = PyCall("int", PyStr(<<"1">>))
    /\ xml_obj["jobs"] = Default("jobs")

(***************************************************************************)
(* C7 as stated: the results of a key are all elements with that tag at    *)
(* any depth below the root, in document order.                            *)
(***************************************************************************)
C7_AnyDepth ==
    XmlDone =>
        \A t \in XmlTags : IsSelection(xml_found[t], Descendants(xml_root.children), t)

(***************************************************************************)
(* C7 amended: the results of a plain tag name are exactly the children of *)
(* the root with that tag, in document order; deeper elements are not      *)
(* collected.                                                              *)
(***************************************************************************)
C7_ChildrenOnly ==
    XmlDone =>
        \A t \in XmlTags : IsSelection(xml_found[t], xml_root.children, t)

C7_Witness ==
    /\ XmlDone
    /\ Len(xml_root.children) = 1
    /\ xml_root.children[1].tag = "slots"
    /\ Len(xml_root.children[1].children) = 1
    /\ xml_root.children[1].children[1].tag = "hard_request"
    /\ xml_found["hard_request"] = <<>>
    /\ Len(xml_found["slots"]) = 1

(***************************************************************************)
(* C8 as stated: for every element kind, a result with a name attribute    *)
(* yields the single-entry mapping {name: extracted text}.                 *)
(***************************************************************************)
C8_EveryKind ==
    XmlDone =>
        \A i \in 1..Len(XmlMappings) :
            LET t == XmlMappings[i].tag
            IN  \A j \in 1..Len(xml_found[t]) :
                    xml_found[t][j].name # None => IsNamedEntry(xml_inputs[t][j], xml_found[t][j])

(***************************************************************************)
(* C8 amended: for a text mapping, a result with a name attribute yields   *)
(* the single-entry mapping {name: extracted text}; for an xml mapping the *)
(* input is the element itself, whether or not it has a name attribute.    *)
(***************************************************************************)
C8_TextKindOnly ==
    XmlDone =>
        \A i \in 1..Len(XmlMappings) :
            LET m == XmlMappings[i]
                t == m.tag
            IN  /\ Len(xml_inputs[t]) = Len(xml_found[t])
                /\ \A j \in 1..Len(xml_found[t]) :
                      IF m.xml_elem_type = "xml"
                      THEN xml_inputs[t][j] = xml_found[t][j]
                      ELSE xml_found[t][j].name # None =>
                               IsNamedEntry(xml_inputs[t][j], xml_found[t][j])

C8_Witness ==
    /\ XmlDone
    /\ Len(xml_found["hard_request"]) = 1
    /\ xml_found["hard_request"][1].name = "vcs"
    /\ xml_inputs["hard_request"][1] = PyDict("vcs", PyStr(<<"2">>))
    /\ Len(xml_found["job"]) = 1
    /\ xml_found["job"][1].name = "h_rt"
    /\ xml_inputs["job"][1] = xml_found["job"][1]

C8_WitnessRepeated ==
    /\ XmlDone
    /\ xml_obj["hard_request"] =
           PyList(<<PyDict("vcs", PyStr(<<"2">>)), PyDict("h_rt", PyStr(<<"1">>))>>)


(***************************************************************************)
(* Characters of the explored tables: two letters, the default separator   *)
(* and the line break.                                                     *)
(***************************************************************************)
Separator == "|"

LineBreak == "\n"

TableChars == {"n", "s", Separator, LineBreak}

(***************************************************************************)
(* str.split(sep) for a one-character separator.                           *)
(***************************************************************************)
RECURSIVE Split(_, _)
Split(c, sep) ==
    IF \A i \in 1..Len(c) : c[i] # sep THEN <<c>>
    ELSE LET i == CHOOSE k \in 1..Len(c) : c[k] = sep /\ \A h \in 1..(k - 1) : c[h] # sep
         IN  <<SubSeq(c, 1, i - 1)>> \o Split(SubSeq(c, i + 1, Len(c)), sep)

(***************************************************************************)
(* str.splitlines(): a trailing line break does not open a last line.      *)
(***************************************************************************)
SplitLines(c) ==
    LET parts == Split(c, LineBreak)
    IN  IF parts[Len(parts)] = <<>> THEN SubSeq(parts, 1, Len(parts) - 1) ELSE parts

(***************************************************************************)
(* A record type for the table mapper, in the shape the docstring of       *)
(* from_table_to_obj_list prescribes: one column without and one with a    *)
(* transformation.                                                         *)
(***************************************************************************)
TableMappings ==
    << [column |-> <<"n">>, field |-> "name", transformation |-> None],
       [column |-> <<"s">>, field |-> "slots", transformation |-> "int"] >>

TableFields == {TableMappings[i].field : i \in 1..Len(TableMappings)}

NewTableObj == [f \in TableFields |-> Default(f)]

(***************************************************************************)
(* converters.py line 118: mappings.get(column).                           *)
(***************************************************************************)
GetMapping(column) ==
    IF \E i \in 1..Len(TableMappings) : TableMappings[i].column = column
    THEN TableMappings[CHOOSE i \in 1..Len(TableMappings) : TableMappings[i].column = column]
    ELSE PyNone

(***************************************************************************)
(* Variant of Zip that pads a short row with empty items.                  *)
(***************************************************************************)
Zip_Padded(items, columns) ==
    [j \in 1..Len(columns) |->
        [item |-> IF j <= Len(items) THEN items[j] ELSE <<>>, column |-> columns[j]]]

(***************************************************************************)
(* converters.py line 117: zip(row.split(separator), columns) stops at the *)
(* shorter of the two.                                                     *)
(***************************************************************************)
Zip(items, columns) ==
    [j \in 1..Min(Len(items), Len(columns)) |-> [item |-> items[j], column |-> columns[j]]]

(***************************************************************************)
(* converters.py lines 117-122: the assignments of one row.                *)
(***************************************************************************)
RECURSIVE SetFields(_, _)
SetFields(obj, pairs) ==
    IF pairs = <<>> THEN obj
    ELSE LET mapping == GetMapping(Head(pairs).column)
         IN  IF mapping # PyNone
             THEN SetFields([obj EXCEPT ![mapping.field] =
                                 Transform(mapping.transformation, PyStr(Head(pairs).item))],
                            Tail(pairs))
             ELSE SetFields(obj, Tail(pairs))

(***************************************************************************)
(* converters.py lines 109-125.                                            *)
(***************************************************************************)
TableToObjList(text) ==
    LET lines == SplitLines(text)
    IN  IF Len(lines) > 1
        THEN LET columns == Split(lines[1], Separator)
             IN  [r \in 1..(Len(lines) - 1) |->
                     SetFields(NewTableObj, Zip(Split(lines[r + 1], Separator), columns))]
        ELSE <<>>

InitTable ==
    /\ pc = "table_start"
    /\ PlannerIdle
    /\ xml_root = None
    /\ xml_found = None
    /\ xml_inputs = None
    /\ xml_values = None
    /\ xml_obj = None
    /\ table \in SeqsUpTo(TableChars, MaxTableLen)
    /\ table_results = None

(***************************************************************************)
(* from_table_to_obj_list, lines 109-125.                                  *)
(***************************************************************************)
from_table_to_obj_list ==
    /\ pc = "table_start"
    /\ table_results' = TableToObjList(table)
    /\ pc' = "table_done"
    /\ UNCHANGED <<plannerVars, busy_nodes, xml_root, xml_found, xml_inputs, xml_values, xml_obj, table>>

NextTable == from_table_to_obj_list

SpecTable == InitTable /\ [][NextTable]_vars

(***************************************************************************)
(* Measures used by the property of the table mapper.                      *)
(***************************************************************************)
TableLines == SplitLines(table)

HeaderColumns == Split(TableLines[1], Separator)

RowItems(r) == Split(TableLines[r + 1], Separator)

\* positions of row r that carry both an item and the column of mapping m
MappedPositions(r, m) ==
    {j \in 1..Len(HeaderColumns) : j <= Len(RowItems(r)) /\ HeaderColumns[j] = m.column}

Largest(S) == CHOOSE j \in S : \A h \in S : h <= j

TransformedItem(r, j, m) ==
    IF m.transformation = None
    THEN PyStr(RowItems(r)[j])
    ELSE PyCall(m.transformation, PyStr(RowItems(r)[j]))

(***************************************************************************)
(* C9: fewer than two lines give the empty sequence; otherwise there is    *)
(* one record per line after the header, in row order, and in each record  *)
(* a mapped field holds the (transformed) item of the position of its      *)
(* column when that position exists in both the row and the header (the    *)
(* last such position when the header repeats the column), and the default *)
(* otherwise; unmapped columns set nothing.                                *)
(***************************************************************************)
C9_OneRecordPerRow ==
    pc = "table_done" =>
        IF Len(TableLines) < 2
        THEN table_results = <<>>
        ELSE /\ Len(table_results) = Len(TableLines) - 1
             /\ \A r \in 1..Len(table_results) :
                   /\ DOMAIN table_results[r] = TableFields
                   /\ \A i \in 1..Len(TableMappings) :
                         LET m == TableMappings[i]
                             pos == MappedPositions(r, m)
                         IN  IF pos = {}
                             THEN table_results[r][m.field] = Default(m.field)
                             ELSE table_results[r][m.field] = TransformedItem(r, Largest(pos), m)

C9_Witness ==
    /\ pc = "table_done"
    /\ table = <<"n", "|", "s", LineBreak, "s", LineBreak, "|">>
    /\ Len(table_results) = 2
    /\ table_results[1] = [name |-> PyStr(<<"s">>), slots |-> Default("slots")]
    /\ table_results[2] = [name |-> PyStr(<<>>), slots |-> PyCall("int", PyStr(<<>>))]

C9_WitnessEmpty ==
    /\ pc = "table_done"
    /\ table = <<"n", "|", "s">>
    /\ table_results = <<>>

====
